---- MODULE Spec2Model ----
(***************************************************************************)
(* Codex -> OpenAI Chat Completions response translation.                  *)
(*                                                                         *)
(* Text that the code inspects character by character (reasoning-compat    *)
(* values, delta texts, message content) is a sequence of one-character    *)
(* strings, so that trimming, lower-casing and concatenation are computed. *)
(* Identifiers the code only copies (ids, model names, tool names, call    *)
(* ids, arguments) are plain strings.  An optional JSON value is a         *)
(* sequence of length 0 (absent / null) or 1 (present).                    *)
(***************************************************************************)
EXTENDS Integers, Sequences, FiniteSets, TLC

VARIABLES
    param,        \* *ConvertCliToOpenAIParams carried between streaming calls
    log,          \* the lines handed to ConvertCodexResponseToOpenAI so far
    returned,     \* the []string returned by the last streaming call
    emitted,      \* every chunk returned so far, in emission order
    shortOf,      \* the shortening contract: declared tool name -> short name
    request,      \* the original request of the conversation being replayed
    conversation, \* the vendor's response object of that conversation
    nonStream,    \* result of ConvertCodexResponseToOpenAINonStream, if called
    raw,          \* input of normalizeCodexReasoningCompat
    rawCore,      \* the word raw was built from (before casing and padding)
    value,        \* normalizeCodexReasoningCompat(raw), once computed
    value2,       \* normalizeCodexReasoningCompat(value), once computed
    original,     \* the stored original request handed to annotateCodexOriginalRequest
    codexSettings, \* the config.CodexSettings handed to it
    stored,       \* what annotateCodexOriginalRequest returned, once called
    resolved,     \* resolveCodexReasoningCompat(stored), once computed
    payload,      \* the outgoing payload handed to applyCodexCompatibilityMode
    patched,      \* applyCodexCompatibilityMode(payload), once computed
    patchedAgain, \* applyCodexCompatibilityMode(patched), once computed
    pair,         \* two requests in flight, each with its own *param
    order         \* which of the two requests each call so far was made for

vars == <<param, log, returned, emitted, shortOf, request, conversation,
          nonStream, raw, rawCore, value, value2, original, codexSettings, stored,
          resolved, payload, patched, patchedAgain, pair, order>>

streamVars == <<param, log, returned, emitted>>
normVars == <<raw, rawCore, value, value2>>
annotateVars == <<original, codexSettings, stored, resolved>>
patchVars == <<payload, patched, patchedAgain>>
pairVars == <<pair, order>>

----------------------------------------------------------------------------
(* Bounds *)

MaxPad == 1
MaxUpper == 1

----------------------------------------------------------------------------
(* Optional values *)

None == <<>>
Some(x) == <<x>>
Exists(o) == Len(o) = 1
Get(o) == o[1]

----------------------------------------------------------------------------
(* Strings as character sequences: strings.TrimSpace, strings.ToLower *)

Whitespace == {" ", "\t", "\n", "\r"}

UpperLetters == <<"A","B","C","D","E","F","G","H","I","J","K","L","M",
                  "N","O","P","Q","R","S","T","U","V","W","X","Y","Z">>
LowerLetters == <<"a","b","c","d","e","f","g","h","i","j","k","l","m",
                  "n","o","p","q","r","s","t","u","v","w","x","y","z">>

ToLowerChar(c) ==
    IF \E i \in 1..26 : UpperLetters[i] = c
    THEN LowerLetters[CHOOSE i \in 1..26 : UpperLetters[i] = c]
    ELSE c

ToUpperChar(c) ==
    IF \E i \in 1..26 : LowerLetters[i] = c
    THEN UpperLetters[CHOOSE i \in 1..26 : LowerLetters[i] = c]
    ELSE c

ToLower(s) == [i \in 1..Len(s) |-> ToLowerChar(s[i])]

RECURSIVE TrimLeft(_)
TrimLeft(s) ==
    IF s # <<>> /\ Head(s) \in Whitespace THEN TrimLeft(Tail(s)) ELSE s

RECURSIVE TrimRight(_)
TrimRight(s) ==
    IF s # <<>> /\ s[Len(s)] \in Whitespace
    THEN TrimRight(SubSeq(s, 1, Len(s) - 1))
    ELSE s

TrimSpace(s) == TrimRight(TrimLeft(s))

----------------------------------------------------------------------------
(* Reasoning-compat modes *)

legacy == <<"l","e","g","a","c","y">>
o3 == <<"o","3">>
think_tags == <<"t","h","i","n","k","-","t","a","g","s">>
current == <<"c","u","r","r","e","n","t">>

CompatModes == {legacy, o3, think_tags, current}

\* A plausible slip: the input is lower-cased but not trimmed.
normalizeNoTrim(rawValue) ==
    LET v == ToLower(rawValue)
    IN IF v \in CompatModes THEN v ELSE think_tags

normalizeCodexReasoningCompat(rawValue) ==
    LET v == ToLower(TrimSpace(rawValue))
    IN IF v \in {legacy, o3, think_tags, current} THEN v ELSE think_tags

----------------------------------------------------------------------------
(* Inputs of normalizeCodexReasoningCompat: a word, some of its letters    *)
(* upper-cased, padded with whitespace on both sides.                      *)

OtherWords ==
    { <<>>,
      <<"o">>,
      <<"o","3","3">>,
      <<"o"," ","3">>,
      <<"a","u","t","o">>,
      <<"t","h","i","n","k">>,
      <<"t","h","i","n","k","_","t","a","g","s">>,
      <<"t","h","i","n","k"," ","-","t","a","g","s">>,
      <<"l","e","g","a","c","y","-">>,
      <<"c","u","r","r","e","n","t","\t","x">> }

Words == CompatModes \cup OtherWords

PadChars == {" ", "\t", "\n"}

RECURSIVE Pads(_)
Pads(n) ==
    IF n = 0 THEN {<<>>}
    ELSE LET shorter == Pads(n - 1)
         IN shorter \cup {<<c>> \o p : c \in PadChars, p \in {q \in shorter : Len(q) = n - 1}}

CaseMasks(w) ==
    {m \in SUBSET (1..Len(w)) : Cardinality(m) <= MaxUpper \/ m = 1..Len(w)}

WithCase(w, m) == [i \in 1..Len(w) |-> IF i \in m THEN ToUpperChar(w[i]) ELSE w[i]]

Unset == <<"?">>

InitNorm ==
    /\ rawCore \in Words
    /\ \E m \in CaseMasks(rawCore), l \in Pads(MaxPad), r \in Pads(MaxPad) :
           raw = l \o WithCase(rawCore, m) \o r
    /\ value = Unset
    /\ value2 = Unset

Normalize ==
    /\ value = Unset
    /\ value' = normalizeCodexReasoningCompat(raw)
    /\ UNCHANGED <<raw, rawCore, value2>>
    /\ UNCHANGED <<streamVars, shortOf, request, conversation, nonStream>>
    /\ UNCHANGED <<annotateVars, patchVars, pairVars>>

NormalizeAgain ==
    /\ value # Unset
    /\ value2 = Unset
    /\ value2' = normalizeCodexReasoningCompat(value)
    /\ UNCHANGED <<raw, rawCore, value>>
    /\ UNCHANGED <<streamVars, shortOf, request, conversation, nonStream>>
    /\ UNCHANGED <<annotateVars, patchVars, pairVars>>

----------------------------------------------------------------------------
(* The original request: the two spellings of the settings key, and the    *)
(* declared tools.                                                         *)

Str(o) == IF Exists(o) THEN Get(o) ELSE ""
Txt(o) == IF Exists(o) THEN Get(o) ELSE <<>>
Num(o) == IF Exists(o) THEN Get(o) ELSE 0

resolveCodexReasoningCompat(orig) ==
    IF Exists(orig.settings) THEN normalizeCodexReasoningCompat(Get(orig.settings))
    ELSE IF Exists(orig.legacySettings)
         THEN normalizeCodexReasoningCompat(Get(orig.legacySettings))
         ELSE normalizeCodexReasoningCompat(<<>>)

\* The shortening contract (deterministic, injective over the declared names).
buildShortNameMap(names) == [n \in names |-> shortOf[n]]

DeclaredFunctionNames(orig) ==
    {Get(Get(orig.tools[i].function).name) :
        i \in {j \in 1..Len(orig.tools) :
                  /\ orig.tools[j].type = "function"
                  /\ Exists(orig.tools[j].function)
                  /\ Exists(Get(orig.tools[j].function).name)}}

\* A plausible slip: the map is returned as built, original -> short.
buildForwardMap(orig) ==
    buildShortNameMap(DeclaredFunctionNames(orig))

buildReverseMapFromOriginalOpenAI(orig) ==
    LET names == DeclaredFunctionNames(orig)
        m == buildShortNameMap(names)
    IN [short \in {m[n] : n \in names} |-> CHOOSE n \in names : m[n] = short]

\* if orig, ok := rev[name]; ok { name = orig }
RestoreName(orig, name) ==
    LET rev == buildReverseMapFromOriginalOpenAI(orig)
    IN IF name \in DOMAIN rev THEN rev[name] ELSE name

----------------------------------------------------------------------------
(* Streaming translator: chunks *)

Null == "null"

OpenTag == <<"<","t","h","i","n","k",">">>
CloseTag == <<"<","/","t","h","i","n","k",">">>
Newline == <<"\n">>

\* The SSE template of one call: id and created from the state, model from
\* the event's own top-level "model" field when it has one.  The usage
\* counters, copied from the event and read by nothing else, are left out.
Template(p, line) ==
    [ id |-> p.ResponseID,
      object |-> "chat.completion.chunk",
      created |-> p.CreatedAt,
      model |-> IF Exists(line.model) THEN Get(line.model) ELSE "model",
      role |-> Null,
      content |-> None,
      reasoning_content |-> None,
      reasoning_summary |-> None,
      reasoning |-> None,
      tool_calls |-> None,
      finish_reason |-> Null,
      native_finish_reason |-> Null ]

JString(text) == [string |-> Some(text), content |-> None]
JReasoningContent(text) ==
    [string |-> None, content |-> Some(<<[type |-> "text", text |-> text]>>)]

makeContentChunk(tmpl, text) ==
    [tmpl EXCEPT !.role = "assistant", !.content = Some(text)]

makeReasoningSummaryChunk(tmpl, text) ==
    [tmpl EXCEPT !.role = "assistant",
                 !.reasoning_summary = Some(text),
                 !.reasoning = Some(JString(text))]

makeReasoningChunk(tmpl, text) ==
    [tmpl EXCEPT !.role = "assistant", !.reasoning = Some(JString(text))]

makeO3ReasoningChunk(tmpl, text) ==
    [tmpl EXCEPT !.role = "assistant", !.reasoning = Some(JReasoningContent(text))]

----------------------------------------------------------------------------
(* Streaming translator: the state and the cases of the switch.  Each case *)
(* maps the state (compat already resolved) to the new state and the       *)
(* returned chunks.                                                        *)

ModelName == "codex-model"

NewParams ==
    [ ResponseID |-> "",
      CreatedAt |-> 0,
      Model |-> ModelName,
      FunctionCallIndex |-> -1,
      ReasoningCompat |-> <<>>,
      ThinkOpen |-> FALSE,
      ThinkClosed |-> FALSE,
      SawAnySummary |-> FALSE,
      PendingSummary |-> FALSE ]

Result(p, chunks) == [param |-> p, chunks |-> chunks]

NoResponse ==
    [id |-> None, created_at |-> None, model |-> None, status |-> None, output |-> None]

ResponseOf(line) == IF Exists(line.response) THEN Get(line.response) ELSE NoResponse

OnCreated(p, line) ==
    LET r == ResponseOf(line)
    IN Result([p EXCEPT !.ResponseID = Str(r.id),
                        !.CreatedAt = Num(r.created_at),
                        !.Model = Str(r.model)], <<>>)

\* A plausible slip: the mode is resolved again on every call.
WithCompatEveryCall(p, orig) ==
    [p EXCEPT !.ReasoningCompat = resolveCodexReasoningCompat(orig)]

WithCompat(p, orig) ==
    IF p.ReasoningCompat = <<>>
    THEN [p EXCEPT !.ReasoningCompat = resolveCodexReasoningCompat(orig)]
    ELSE p

\* A plausible slip: a later summary part is recorded like the first one.
OnSummaryPartAddedNoPending(p) ==
    IF p.ReasoningCompat = think_tags \/ p.ReasoningCompat = o3
    THEN Result([p EXCEPT !.SawAnySummary = TRUE], <<>>)
    ELSE Result(p, <<>>)

OnSummaryPartAdded(p) ==
    IF p.ReasoningCompat = think_tags \/ p.ReasoningCompat = o3
    THEN IF p.SawAnySummary
         THEN Result([p EXCEPT !.PendingSummary = TRUE], <<>>)
         ELSE Result([p EXCEPT !.SawAnySummary = TRUE], <<>>)
    ELSE Result(p, <<>>)

IsSummaryDelta(line) == line.type = "response.reasoning_summary_text.delta"

O3Delta(p, line, tmpl) ==
    LET delta == Txt(line.delta)
        sep == IsSummaryDelta(line) /\ p.PendingSummary
    IN Result(IF sep THEN [p EXCEPT !.PendingSummary = FALSE] ELSE p,
              (IF sep THEN <<makeO3ReasoningChunk(tmpl, Newline)>> ELSE <<>>)
                  \o <<makeO3ReasoningChunk(tmpl, delta)>>)

\* A plausible slip: every reasoning delta is sent as a summary delta.
LegacyDeltaAllSummary(p, line, tmpl) ==
    Result(p, <<makeReasoningSummaryChunk(tmpl, Txt(line.delta))>>)

LegacyDelta(p, line, tmpl) ==
    LET delta == Txt(line.delta)
    IN IF IsSummaryDelta(line)
       THEN Result(p, <<makeReasoningSummaryChunk(tmpl, delta)>>)
       ELSE Result(p, <<makeReasoningChunk(tmpl, delta)>>)

\* A plausible slip: the block is opened whenever it is not open, also after
\* it was closed.
ThinkTagsDeltaReopen(p, line, tmpl) ==
    LET delta == Txt(line.delta)
        open == ~p.ThinkOpen
        p1 == IF open THEN [p EXCEPT !.ThinkOpen = TRUE] ELSE p
        sep == IsSummaryDelta(line) /\ p1.PendingSummary
        p2 == IF sep THEN [p1 EXCEPT !.PendingSummary = FALSE] ELSE p1
    IN Result(p2,
              (IF open THEN <<makeContentChunk(tmpl, OpenTag)>> ELSE <<>>)
                  \o (IF sep THEN <<makeContentChunk(tmpl, Newline)>> ELSE <<>>)
                  \o <<makeContentChunk(tmpl, delta)>>)

ThinkTagsDelta(p, line, tmpl) ==
    LET delta == Txt(line.delta)
        open == ~p.ThinkOpen /\ ~p.ThinkClosed
        p1 == IF open THEN [p EXCEPT !.ThinkOpen = TRUE] ELSE p
        sep == IsSummaryDelta(line) /\ p1.PendingSummary
        p2 == IF sep THEN [p1 EXCEPT !.PendingSummary = FALSE] ELSE p1
    IN Result(p2,
              (IF open THEN <<makeContentChunk(tmpl, OpenTag)>> ELSE <<>>)
                  \o (IF sep THEN <<makeContentChunk(tmpl, Newline)>> ELSE <<>>)
                  \o <<makeContentChunk(tmpl, delta)>>)

OnReasoningDelta(p, line, tmpl) ==
    IF p.ReasoningCompat = o3 THEN O3Delta(p, line, tmpl)
    ELSE IF p.ReasoningCompat \in {legacy, current} THEN LegacyDelta(p, line, tmpl)
    ELSE ThinkTagsDelta(p, line, tmpl)

OnOutputTextDelta(p, line, tmpl) ==
    IF Exists(line.delta)
    THEN Result(p, <<makeContentChunk(tmpl, Get(line.delta))>>)
    ELSE Result(p, <<>>)

\* A plausible slip: the index is compared with 0 instead of -1.
FinishReasonPositive(p) == IF p.FunctionCallIndex > 0 THEN "tool_calls" ELSE "stop"

FinishReason(p) == IF p.FunctionCallIndex # -1 THEN "tool_calls" ELSE "stop"

\* A plausible slip: the finish chunk is returned before the closing tag.
OnCompletedFinishFirst(p, tmpl) ==
    LET finishReason == IF p.FunctionCallIndex # -1 THEN "tool_calls" ELSE "stop"
        finish == [tmpl EXCEPT !.finish_reason = finishReason,
                               !.native_finish_reason = finishReason]
    IN IF p.ReasoningCompat = think_tags /\ p.ThinkOpen /\ ~p.ThinkClosed
       THEN Result([p EXCEPT !.ThinkOpen = FALSE, !.ThinkClosed = TRUE],
                   <<finish, makeContentChunk(finish, CloseTag)>>)
       ELSE Result(p, <<finish>>)

\* A plausible slip: the block is marked closed but still left open.
OnCompletedLeavesOpen(p, tmpl) ==
    LET finishReason == IF p.FunctionCallIndex # -1 THEN "tool_calls" ELSE "stop"
        finish == [tmpl EXCEPT !.finish_reason = finishReason,
                               !.native_finish_reason = finishReason]
    IN IF p.ReasoningCompat = think_tags /\ p.ThinkOpen /\ ~p.ThinkClosed
       THEN Result([p EXCEPT !.ThinkClosed = TRUE],
                   <<makeContentChunk(finish, CloseTag), finish>>)
       ELSE Result(p, <<finish>>)

\* A plausible slip: the block is closed at every response.completed once
\* it was opened, also when it is closed already.
OnCompletedClosesAgain(p, tmpl) ==
    LET finishReason == IF p.FunctionCallIndex # -1 THEN "tool_calls" ELSE "stop"
        finish == [tmpl EXCEPT !.finish_reason = finishReason,
                               !.native_finish_reason = finishReason]
    IN IF p.ReasoningCompat = think_tags /\ (p.ThinkOpen \/ p.ThinkClosed)
       THEN Result([p EXCEPT !.ThinkOpen = FALSE, !.ThinkClosed = TRUE],
                   <<makeContentChunk(finish, CloseTag), finish>>)
       ELSE Result(p, <<finish>>)

\* The closing chunk is made from the template after the finish reason was
\* set on it: makeContentChunk reads the variable, not a copy taken earlier.
OnCompleted(p, tmpl) ==
    LET finishReason == FinishReason(p)
        finish == [tmpl EXCEPT !.finish_reason = finishReason,
                               !.native_finish_reason = finishReason]
    IN IF p.ReasoningCompat = think_tags /\ p.ThinkOpen /\ ~p.ThinkClosed
       THEN Result([p EXCEPT !.ThinkOpen = FALSE, !.ThinkClosed = TRUE],
                   <<makeContentChunk(finish, CloseTag), finish>>)
       ELSE Result(p, <<finish>>)

\* A plausible slip: the tool call is given the index from before the increment.
OnOutputItemDoneStaleIndex(p, orig, line, tmpl) ==
    IF Exists(line.item)
    THEN LET item == Get(line.item)
             call == [ index |-> p.FunctionCallIndex,
                       id |-> Str(item.call_id),
                       type |-> "function",
                       function |-> [ name |-> RestoreName(orig, Str(item.name)),
                                      arguments |-> Str(item.arguments) ] ]
         IN IF item.type # "function_call"
            THEN Result(p, <<>>)
            ELSE Result([p EXCEPT !.FunctionCallIndex = p.FunctionCallIndex + 1],
                        <<[tmpl EXCEPT !.role = "assistant",
                                       !.tool_calls = Some(<<call>>)]>>)
    ELSE Result(p, <<tmpl>>)

OnOutputItemDone(p, orig, line, tmpl) ==
    IF Exists(line.item)
    THEN LET item == Get(line.item)
             index == p.FunctionCallIndex + 1
             call == [ index |-> index,
                       id |-> Str(item.call_id),
                       type |-> "function",
                       function |-> [ name |-> RestoreName(orig, Str(item.name)),
                                      arguments |-> Str(item.arguments) ] ]
         IN IF item.type # "function_call"
            THEN Result(p, <<>>)
            ELSE Result([p EXCEPT !.FunctionCallIndex = index],
                        <<[tmpl EXCEPT !.role = "assistant",
                                       !.tool_calls = Some(<<call>>)]>>)
    ELSE Result(p, <<tmpl>>)

----------------------------------------------------------------------------
(* Inputs: event lines and original requests *)

MaxEvents == 4

\* Delta texts: vendor text, other than the literals the translator inserts
\* itself ("<think>", "</think>", "\n").
thinking == <<"t","h","i","n","k","i","n","g">>
Hi == <<"H","i">>

Line(type, response, delta, item) ==
    [ data |-> TRUE, type |-> type, response |-> response, delta |-> delta,
      item |-> item, model |-> None ]

\* A line without the "data:" prefix.
NotDataLine == [Line("", None, None, None) EXCEPT !.data = FALSE]

Response(id, status, output) ==
    [ id |-> Some(id), created_at |-> Some(1700), model |-> Some("m1"),
      status |-> status, output |-> output ]

CreatedLine == Line("response.created", Some(Response("r1", None, None)), None, None)

SummaryPartAddedLine == Line("response.reasoning_summary_part.added", None, None, None)
SummaryDeltaLine(t) == Line("response.reasoning_summary_text.delta", None, Some(t), None)
ReasoningDeltaLine(t) == Line("response.reasoning_text.delta", None, Some(t), None)
SummaryDoneLine == Line("response.reasoning_summary_text.done", None, None, None)
OutputTextDeltaLine(d) == Line("response.output_text.delta", None, d, None)
CompletedLine(response) == Line("response.completed", response, None, None)
OutputItemDoneLine(item) == Line("response.output_item.done", None, None, item)
OtherLine == Line("response.in_progress", None, None, None)

Item(type) ==
    [ type |-> type, call_id |-> None, name |-> None, arguments |-> None,
      summary |-> None, content |-> None, text |-> None ]

FunctionCallItem(callId, name) ==
    [Item("function_call") EXCEPT !.call_id = Some(callId), !.name = Some(name),
                                  !.arguments = Some("{}")]

MessageItem(text) ==
    [Item("message") EXCEPT
        !.content = Some(<<[type |-> "output_text", text |-> Some(text)]>>)]

ReasoningItem(summaries, contents) ==
    [Item("reasoning") EXCEPT
        !.summary = Some([i \in 1..Len(summaries) |->
                             [type |-> "summary_text", text |-> Some(summaries[i])]]),
        !.content = Some([i \in 1..Len(contents) |->
                             [type |-> "reasoning_text", text |-> Some(contents[i])]])]

Lines ==
    { NotDataLine, CreatedLine, SummaryPartAddedLine, SummaryDeltaLine(thinking),
      ReasoningDeltaLine(thinking), SummaryDoneLine, OtherLine,
      OutputTextDeltaLine(Some(Hi)), OutputTextDeltaLine(None),
      [OutputTextDeltaLine(Some(Hi)) EXCEPT !.model = Some("m2")],
      CompletedLine(None),
      OutputItemDoneLine(Some(FunctionCallItem("call_1", "get_weather"))),
      OutputItemDoneLine(Some(MessageItem(Hi))),
      OutputItemDoneLine(None) }

FunctionTool(name) == [type |-> "function", function |-> Some([name |-> Some(name)])]
OtherTool(type) == [type |-> type, function |-> None]

Request(settings, legacySettings, tools) ==
    [settings |-> settings, legacySettings |-> legacySettings, tools |-> tools]

ExampleTools == <<FunctionTool("get_weather_data"), OtherTool("web_search")>>

\* Requests of the streaming exploration: one per way of stating the mode.
StreamRequests ==
    { Request(None, None, ExampleTools),
      Request(Some(o3), None, ExampleTools),
      Request(Some(legacy), None, ExampleTools),
      Request(Some(current), None, ExampleTools),
      Request(None, Some(<<" ","O","3">>), ExampleTools) }

ToolNames == {"get_weather_data", "calc"}
ShortNames == {"get_weather", "calc", "g"}

Shortenings ==
    {f \in [ToolNames -> ShortNames] :
        \A a, b \in ToolNames : f[a] = f[b] => a = b}

ExampleShortening ==
    [n \in ToolNames |-> IF n = "get_weather_data" THEN "get_weather" ELSE n]

----------------------------------------------------------------------------
(* ConvertCodexResponseToOpenAI: one action per case of the dispatch *)

Deliver(line, res) ==
    /\ param' = res.param
    /\ returned' = res.chunks
    /\ emitted' = emitted \o res.chunks
    /\ log' = Append(log, line)
    /\ UNCHANGED <<shortOf, request, conversation, nonStream>>
    /\ UNCHANGED <<normVars, annotateVars, patchVars, pairVars>>

NotData(line) ==
    /\ ~line.data
    /\ Deliver(line, Result(param, <<>>))

ResponseCreated(line) ==
    /\ line.data
    /\ line.type = "response.created"
    /\ Deliver(line, OnCreated(param, line))

SummaryPartAdded(orig, line) ==
    /\ line.data
    /\ line.type = "response.reasoning_summary_part.added"
    /\ Deliver(line, OnSummaryPartAdded(WithCompat(param, orig)))

ReasoningDelta(orig, line) ==
    /\ line.data
    /\ line.type \in {"response.reasoning_summary_text.delta",
                      "response.reasoning_text.delta"}
    /\ LET p == WithCompat(param, orig)
       IN Deliver(line, OnReasoningDelta(p, line, Template(p, line)))

SummaryDone(orig, line) ==
    /\ line.data
    /\ line.type = "response.reasoning_summary_text.done"
    /\ Deliver(line, Result(WithCompat(param, orig), <<>>))

OutputTextDelta(orig, line) ==
    /\ line.data
    /\ line.type = "response.output_text.delta"
    /\ LET p == WithCompat(param, orig)
       IN Deliver(line, OnOutputTextDelta(p, line, Template(p, line)))

Completed(orig, line) ==
    /\ line.data
    /\ line.type = "response.completed"
    /\ LET p == WithCompat(param, orig)
       IN Deliver(line, OnCompleted(p, Template(p, line)))

OutputItemDone(orig, line) ==
    /\ line.data
    /\ line.type = "response.output_item.done"
    /\ LET p == WithCompat(param, orig)
       IN Deliver(line, OnOutputItemDone(p, orig, line, Template(p, line)))

KnownTypes ==
    { "response.created", "response.reasoning_summary_part.added",
      "response.reasoning_summary_text.delta", "response.reasoning_text.delta",
      "response.reasoning_summary_text.done", "response.output_text.delta",
      "response.completed", "response.output_item.done" }

\* A plausible slip: no default case, so that an unknown type reaches the
\* return of the bare template after the switch.
UnknownTypeFallsThrough(orig, line) ==
    /\ line.data
    /\ line.type \notin KnownTypes
    /\ LET p == WithCompat(param, orig)
       IN Deliver(line, Result(p, <<Template(p, line)>>))

UnknownType(orig, line) ==
    /\ line.data
    /\ line.type \notin KnownTypes
    /\ Deliver(line, Result(WithCompat(param, orig), <<>>))

\* The whole call as a function of the state behind *param, the original
\* request and the line: the new state and the returned chunks.
ConvertCodexResponseToOpenAI(p, orig, line) ==
    IF ~line.data THEN Result(p, <<>>)
    ELSE IF line.type = "response.created" THEN OnCreated(p, line)
    ELSE LET q == WithCompat(p, orig)
             tmpl == Template(q, line)
         IN CASE line.type = "response.reasoning_summary_part.added" ->
                     OnSummaryPartAdded(q)
              [] line.type \in {"response.reasoning_summary_text.delta",
                                "response.reasoning_text.delta"} ->
                     OnReasoningDelta(q, line, tmpl)
              [] line.type = "response.reasoning_summary_text.done" ->
                     Result(q, <<>>)
              [] line.type = "response.output_text.delta" ->
                     OnOutputTextDelta(q, line, tmpl)
              [] line.type = "response.completed" ->
                     OnCompleted(q, tmpl)
              [] line.type = "response.output_item.done" ->
                     OnOutputItemDone(q, orig, line, tmpl)
              [] OTHER -> Result(q, <<>>)

----------------------------------------------------------------------------
(* Spec: one request, any lines in any order *)

NoConversation == NoResponse
NotCalled == <<>>

\* The parts of the state a specification does not exercise stay as they are.
IdleAnnotate ==
    /\ original = NotCalled
    /\ codexSettings = NotCalled
    /\ stored = NotCalled
    /\ resolved = NotCalled
IdlePatch == payload = NotCalled /\ patched = NotCalled /\ patchedAgain = NotCalled
IdlePair == pair = NotCalled /\ order = NotCalled

Init ==
    /\ param = NewParams
    /\ log = <<>>
    /\ returned = <<>>
    /\ emitted = <<>>
    /\ shortOf = ExampleShortening
    /\ request \in StreamRequests
    /\ conversation = NoConversation
    /\ nonStream = NotCalled
    /\ raw = <<>> /\ rawCore = <<>> /\ value = Unset /\ value2 = Unset
    /\ IdleAnnotate /\ IdlePatch /\ IdlePair

\* The lines the vendor may send next: any, until the bound is reached.
Offered == IF Len(log) < MaxEvents THEN Lines ELSE {}

Next ==
    \/ \E line \in Offered : NotData(line)
    \/ \E line \in Offered : ResponseCreated(line)
    \/ \E line \in Offered : SummaryPartAdded(request, line)
    \/ \E line \in Offered : ReasoningDelta(request, line)
    \/ \E line \in Offered : SummaryDone(request, line)
    \/ \E line \in Offered : OutputTextDelta(request, line)
    \/ \E line \in Offered : Completed(request, line)
    \/ \E line \in Offered : OutputItemDone(request, line)
    \/ \E line \in Offered : UnknownType(request, line)

Spec == Init /\ [][Next]_vars

----------------------------------------------------------------------------
(* SpecNorm: normalizeCodexReasoningCompat on words in any casing and padding *)

InitNormalize ==
    /\ InitNorm
    /\ param = NewParams
    /\ log = <<>>
    /\ returned = <<>>
    /\ emitted = <<>>
    /\ shortOf = ExampleShortening
    /\ request = Request(None, None, <<>>)
    /\ conversation = NoConversation
    /\ nonStream = NotCalled
    /\ IdleAnnotate /\ IdlePatch /\ IdlePair

NextNorm == Normalize \/ NormalizeAgain

SpecNorm == InitNormalize /\ [][NextNorm]_vars

----------------------------------------------------------------------------
(* codex_settings.go: annotating the stored original request                *)
(*                                                                         *)
(* A stored request is described by what its bytes are (nothing, text that  *)
(* is not JSON, a JSON object, a JSON array), by the members the translator *)
(* looks up in it, and by the flags found under "__codex_settings".         *)

EmptyBytes == "empty"
InvalidJSON == "invalid"
JSONObject == "object"
JSONArray == "array"

NoFields == Request(None, None, <<>>)

Document(kind, fields, flags) == [kind |-> kind, fields |-> fields, flags |-> flags]

\* sjson.SetBytes(original, "__codex_settings", payload): the member is set,
\* replacing what was there; a top-level array has no member to set, and the
\* call fails.
SetCodexSettings(doc, compat, flags) ==
    IF doc.kind = JSONArray
    THEN None
    ELSE Some(Document(JSONObject, [doc.fields EXCEPT !.settings = Some(compat)], flags))

AnnotationFlags(s) ==
    (IF s.Verbose THEN {"verbose"} ELSE {})
    \cup (IF s.VerboseObfuscation THEN {"verbose_obfuscation"} ELSE {})
    \cup (IF s.CompatibilityMode THEN {"compatibility_mode"} ELSE {})

annotateCodexOriginalRequest(orig, s) ==
    IF orig.kind = EmptyBytes \/ orig.kind = InvalidJSON
    THEN orig
    ELSE LET updated == SetCodexSettings(orig, s.ReasoningCompat, AnnotationFlags(s))
         IN IF ~Exists(updated) THEN orig ELSE Get(updated)

\* The modes resolveCodexReasoningCompat may return for a stored request:
\* gjson promises nothing about lookups in text that is not JSON.
ResolvedModes(doc) ==
    IF doc.kind = InvalidJSON
    THEN {legacy, o3, think_tags, current}
    ELSE {resolveCodexReasoningCompat(doc.fields)}

\* Inputs: stored requests with and without either spelling of the settings
\* key, and settings whose reasoning-compat value is canonical or not.
SettingsTexts == {o3, <<"O","3"," ">>}
LegacyTexts == {legacy, current}

Originals ==
    {Document(k, NoFields, {}) : k \in {EmptyBytes, InvalidJSON, JSONArray}}
    \cup {Document(JSONObject, Request(None, l, t), {}) :
             l \in {None} \cup {Some(x) : x \in LegacyTexts}, t \in {<<>>, ExampleTools}}
    \cup {Document(JSONObject, Request(Some(c), l, <<>>), f) :
             c \in SettingsTexts,
             l \in {None} \cup {Some(x) : x \in LegacyTexts},
             f \in {{}, {"verbose"}}}

ReasoningCompatValues ==
    {legacy, o3, think_tags, current, <<>>, <<" ","L","e","g","a","c","y">>,
     <<"a","u","t","o">>}

CodexSettings ==
    [ReasoningCompat : ReasoningCompatValues,
     Verbose : BOOLEAN,
     VerboseObfuscation : BOOLEAN,
     CompatibilityMode : BOOLEAN]

Annotate ==
    /\ stored = NotCalled
    /\ stored' = Some(annotateCodexOriginalRequest(original, codexSettings))
    /\ UNCHANGED <<original, codexSettings, resolved>>
    /\ UNCHANGED <<streamVars, shortOf, request, conversation, nonStream>>
    /\ UNCHANGED <<normVars, patchVars, pairVars>>

Resolve ==
    /\ stored # NotCalled
    /\ resolved = NotCalled
    /\ \E mode \in ResolvedModes(Get(stored)) : resolved' = Some(mode)
    /\ UNCHANGED <<original, codexSettings, stored>>
    /\ UNCHANGED <<streamVars, shortOf, request, conversation, nonStream>>
    /\ UNCHANGED <<normVars, patchVars, pairVars>>

InitAnnotate ==
    /\ original \in Originals
    /\ codexSettings \in CodexSettings
    /\ stored = NotCalled
    /\ resolved = NotCalled
    /\ param = NewParams
    /\ log = <<>>
    /\ returned = <<>>
    /\ emitted = <<>>
    /\ shortOf = ExampleShortening
    /\ request = Request(None, None, <<>>)
    /\ conversation = NoConversation
    /\ nonStream = NotCalled
    /\ raw = <<>> /\ rawCore = <<>> /\ value = Unset /\ value2 = Unset
    /\ IdlePatch /\ IdlePair

NextAnnotate == Annotate \/ Resolve

SpecAnnotate == InitAnnotate /\ [][NextAnnotate]_vars

----------------------------------------------------------------------------
(* codex_settings.go: the compatibility patch of the outgoing payload.      *)
(* The payload is a JSON object; of its members the patch reads and writes  *)
(* instructions and input.  input, when present, is an array of elements or *)
(* some other JSON value; an element has an optional role and the rest of   *)
(* its members, which the patch never touches.                              *)

MaxInput == 2

system == <<"s","y","s","t","e","m">>
user == <<"u","s","e","r">>
assistant == <<"a","s","s","i","s","t","a","n","t">>

\* A plausible slip: the role is compared as it is spelled.
EqualExact(a, b) == a = b

\* strings.EqualFold
EqualFold(a, b) == ToLower(a) = ToLower(b)

Element(role, rest) == [role |-> role, rest |-> rest]

ArrayInput(items) == [isArray |-> TRUE, items |-> items]
OtherInput == [isArray |-> FALSE, items |-> <<>>]

Payload(instructions, input) == [instructions |-> instructions, input |-> input]

\* The loop over the elements, from element i on: out is the payload as
\* rewritten so far, items the elements as parsed before the loop.
RECURSIVE PatchRoles(_, _, _)
PatchRoles(out, items, i) ==
    IF i > Len(items) THEN out
    ELSE IF ~EqualFold(Txt(items[i].role), system)
    THEN PatchRoles(out, items, i + 1)
    ELSE PatchRoles([out EXCEPT !.input[1].items[i].role = Some(user)], items, i + 1)

applyCodexCompatibilityMode(pl) ==
    LET out == [pl EXCEPT !.instructions = None]
    IN IF ~Exists(out.input) \/ ~Get(out.input).isArray
       THEN out
       ELSE PatchRoles(out, Get(out.input).items, 1)

Roles ==
    { None, Some(system), Some(<<"S","y","s","t","e","m">>),
      Some(<<"S","Y","S","T","E","M">>), Some(<<" ","s","y","s","t","e","m">>),
      Some(user), Some(assistant) }

Elements == {Element(role, rest) : role \in Roles, rest \in {"a", "b"}}

Inputs ==
    {None, Some(OtherInput)}
    \cup {Some(ArrayInput(items)) : items \in UNION {[1..k -> Elements] : k \in 0..MaxInput}}

Payloads == {Payload(i, input) : i \in {None, Some("Be brief.")}, input \in Inputs}

Patch ==
    /\ patched = NotCalled
    /\ patched' = Some(applyCodexCompatibilityMode(payload))
    /\ UNCHANGED <<payload, patchedAgain>>
    /\ UNCHANGED <<streamVars, shortOf, request, conversation, nonStream>>
    /\ UNCHANGED <<normVars, annotateVars, pairVars>>

PatchAgain ==
    /\ patched # NotCalled
    /\ patchedAgain = NotCalled
    /\ patchedAgain' = Some(applyCodexCompatibilityMode(Get(patched)))
    /\ UNCHANGED <<payload, patched>>
    /\ UNCHANGED <<streamVars, shortOf, request, conversation, nonStream>>
    /\ UNCHANGED <<normVars, annotateVars, pairVars>>

InitPatch ==
    /\ payload \in Payloads
    /\ patched = NotCalled
    /\ patchedAgain = NotCalled
    /\ param = NewParams
    /\ log = <<>>
    /\ returned = <<>>
    /\ emitted = <<>>
    /\ shortOf = ExampleShortening
    /\ request = Request(None, None, <<>>)
    /\ conversation = NoConversation
    /\ nonStream = NotCalled
    /\ raw = <<>> /\ rawCore = <<>> /\ value = Unset /\ value2 = Unset
    /\ IdleAnnotate /\ IdlePair

NextPatch == Patch \/ PatchAgain

SpecPatch == InitPatch /\ [][NextPatch]_vars

----------------------------------------------------------------------------
(* SpecCompat: one state, every call passing an original request of its     *)
(* own.  request holds the original request passed to the latest call.      *)

MaxCompatCalls == 3

CompatLines ==
    { NotDataLine, CreatedLine, SummaryDeltaLine(thinking), OtherLine,
      CompletedLine(None) }

CompatRequests ==
    { Request(None, None, ExampleTools),
      Request(Some(o3), None, ExampleTools),
      Request(None, Some(<<"L","e","g","a","c","y"," ">>), ExampleTools) }

CallWith(orig, line) ==
    /\ Len(log) < MaxCompatCalls
    /\ LET res == ConvertCodexResponseToOpenAI(param, orig, line)
       IN /\ param' = res.param
          /\ returned' = res.chunks
          /\ emitted' = emitted \o res.chunks
    /\ log' = Append(log, line)
    /\ request' = orig
    /\ UNCHANGED <<shortOf, conversation, nonStream>>
    /\ UNCHANGED <<normVars, annotateVars, patchVars, pairVars>>

InitCompat ==
    /\ param = NewParams
    /\ log = <<>>
    /\ returned = <<>>
    /\ emitted = <<>>
    /\ shortOf = ExampleShortening
    /\ request = Request(None, None, <<>>)
    /\ conversation = NoConversation
    /\ nonStream = NotCalled
    /\ raw = <<>> /\ rawCore = <<>> /\ value = Unset /\ value2 = Unset
    /\ IdleAnnotate /\ IdlePatch /\ IdlePair

NextCompat == \E orig \in CompatRequests, line \in CompatLines : CallWith(orig, line)

SpecCompat == InitCompat /\ [][NextCompat]_vars

----------------------------------------------------------------------------
(* SpecPair: two requests in flight.  Each request has its own *param,      *)
(* nil before its first call; the calls of the two requests interleave in   *)
(* any order.  A call touches nothing but its arguments, so calls running   *)
(* at the same time for different requests act as if one followed the other.*)

MaxCalls == 4

RequestIds == {1, 2}

PairLines ==
    { CreatedLine, SummaryPartAddedLine, SummaryDeltaLine(thinking),
      OutputItemDoneLine(Some(FunctionCallItem("call_1", "get_weather"))),
      CompletedLine(None) }

PairRequests ==
    { Request(None, None, ExampleTools), Request(Some(o3), None, ExampleTools) }

NewRequestState(orig) ==
    [param |-> NewParams, request |-> orig, log |-> <<>>, emitted |-> <<>>]

\* A plausible slip: the state lives in one package-level variable.
ParamOfShared(states, r) == states[1].param

\* (*param).(*ConvertCliToOpenAIParams) of the call made for request r.
ParamOf(states, r) == states[r].param

CallFor(r, line) ==
    /\ Len(order) < MaxCalls
    /\ LET res == ConvertCodexResponseToOpenAI(ParamOf(pair, r), pair[r].request, line)
       IN pair' = [pair EXCEPT ![r] = [@ EXCEPT !.param = res.param,
                                               !.log = Append(@, line),
                                               !.emitted = @ \o res.chunks]]
    /\ order' = Append(order, r)
    /\ UNCHANGED <<streamVars, shortOf, request, conversation, nonStream>>
    /\ UNCHANGED <<normVars, annotateVars, patchVars>>

InitPair ==
    /\ \E a, b \in PairRequests :
          pair = [r \in RequestIds |-> NewRequestState(IF r = 1 THEN a ELSE b)]
    /\ order = <<>>
    /\ param = NewParams
    /\ log = <<>>
    /\ returned = <<>>
    /\ emitted = <<>>
    /\ shortOf = ExampleShortening
    /\ request = Request(None, None, <<>>)
    /\ conversation = NoConversation
    /\ nonStream = NotCalled
    /\ raw = <<>> /\ rawCore = <<>> /\ value = Unset /\ value2 = Unset
    /\ IdleAnnotate /\ IdlePatch

NextPair ==
    \/ \E line \in PairLines : CallFor(1, line)
    \/ \E line \in PairLines : CallFor(2, line)

SpecPair == InitPair /\ [][NextPair]_vars

----------------------------------------------------------------------------
(* Non-stream translator *)

DoubleNewline == <<"\n", "\n">>

\* A plausible slip: the full text is placed before the summary.
joinReasoningTextFullFirst(summary, full) ==
    LET s1 == TrimSpace(summary)
        f1 == TrimSpace(full)
    IN IF s1 = <<>> THEN f1
       ELSE IF f1 = <<>> THEN s1
       ELSE f1 \o DoubleNewline \o s1

joinReasoningText(summary, full) ==
    LET s1 == TrimSpace(summary)
        f1 == TrimSpace(full)
    IN IF s1 = <<>> THEN f1
       ELSE IF f1 = <<>> THEN s1
       ELSE s1 \o DoubleNewline \o f1

NewMessage ==
    [ role |-> "assistant", content |-> None, tool_calls |-> None,
      reasoning |-> None, reasoning_summary |-> None ]

applyCodexReasoningCompatToMessage(message, summary, full, compatValue) ==
    LET compat == normalizeCodexReasoningCompat(compatValue)
        combined == joinReasoningText(summary, full)
        thinkBlock == OpenTag \o combined \o CloseTag
    IN IF compat = o3
       THEN IF combined # <<>>
            THEN [message EXCEPT !.reasoning = Some(JReasoningContent(combined))]
            ELSE message
       ELSE IF compat \in {legacy, current}
       THEN LET m1 == IF TrimSpace(summary) # <<>>
                      THEN [message EXCEPT !.reasoning_summary = Some(summary)]
                      ELSE message
            IN IF TrimSpace(full) # <<>>
               THEN [m1 EXCEPT !.reasoning = Some(JString(full))]
               ELSE m1
       ELSE IF combined = <<>> THEN message
       ELSE IF Exists(message.content)
            THEN [message EXCEPT !.content = Some(thinkBlock \o Get(message.content))]
            ELSE [message EXCEPT !.content = Some(thinkBlock)]

\* if acc != "" { acc += "\n\n" }; acc += text  -- for a trimmed, non-empty text
AppendSegment(acc, text) ==
    LET t == TrimSpace(text)
    IN IF t = <<>> THEN acc
       ELSE IF acc # <<>> THEN acc \o DoubleNewline \o t
       ELSE t

\* The summary array of a reasoning item, from part i on.
RECURSIVE AppendSummaries(_, _, _)
AppendSummaries(acc, parts, i) ==
    IF i > Len(parts) THEN acc
    ELSE AppendSummaries(IF parts[i].type = "summary_text"
                         THEN AppendSegment(acc, Txt(parts[i].text))
                         ELSE acc,
                         parts, i + 1)

\* The content array of a reasoning item, from part i on.
RECURSIVE AppendContents(_, _, _)
AppendContents(acc, parts, i) ==
    IF i > Len(parts) THEN acc
    ELSE AppendContents(AppendSegment(acc, Txt(parts[i].text)), parts, i + 1)

\* The text of the first output_text part of a message item, if it has one.
FirstOutputText(parts) ==
    LET found == {i \in 1..Len(parts) : parts[i].type = "output_text"}
    IN IF found = {} THEN None
       ELSE Some(Txt(parts[CHOOSE i \in found : \A j \in found : i <= j].text))

FunctionCallDescriptor(orig, item) ==
    [ id |-> Str(item.call_id),
      type |-> "function",
      function |-> [ name |-> IF Exists(item.name)
                              THEN RestoreName(orig, Get(item.name))
                              ELSE "",
                     arguments |-> Str(item.arguments) ] ]

NewAccumulator ==
    [ contentText |-> <<>>, reasoningSummaryText |-> <<>>,
      reasoningFullText |-> <<>>, toolCalls |-> <<>> ]

\* A plausible slip: a function call is put in front of the earlier ones.
WalkItemNewestFirst(acc, orig, item) ==
    IF item.type = "reasoning"
    THEN LET summaryText == IF Exists(item.summary)
                            THEN AppendSummaries(acc.reasoningSummaryText, Get(item.summary), 1)
                            ELSE acc.reasoningSummaryText
             structured == IF Exists(item.content)
                           THEN AppendContents(acc.reasoningFullText, Get(item.content), 1)
                           ELSE acc.reasoningFullText
         IN [acc EXCEPT !.reasoningSummaryText = summaryText,
                        !.reasoningFullText = AppendSegment(structured, Txt(item.text))]
    ELSE IF item.type = "message"
    THEN IF Exists(item.content) /\ Exists(FirstOutputText(Get(item.content)))
         THEN [acc EXCEPT !.contentText = Get(FirstOutputText(Get(item.content)))]
         ELSE acc
    ELSE IF item.type = "function_call"
    THEN [acc EXCEPT !.toolCalls = <<FunctionCallDescriptor(orig, item)>> \o @]
    ELSE acc

\* One iteration of the loop over the output array.
WalkItem(acc, orig, item) ==
    IF item.type = "reasoning"
    THEN LET summaryText == IF Exists(item.summary)
                            THEN AppendSummaries(acc.reasoningSummaryText, Get(item.summary), 1)
                            ELSE acc.reasoningSummaryText
             structured == IF Exists(item.content)
                           THEN AppendContents(acc.reasoningFullText, Get(item.content), 1)
                           ELSE acc.reasoningFullText
         IN [acc EXCEPT !.reasoningSummaryText = summaryText,
                        !.reasoningFullText = AppendSegment(structured, Txt(item.text))]
    ELSE IF item.type = "message"
    THEN IF Exists(item.content) /\ Exists(FirstOutputText(Get(item.content)))
         THEN [acc EXCEPT !.contentText = Get(FirstOutputText(Get(item.content)))]
         ELSE acc
    ELSE IF item.type = "function_call"
    THEN [acc EXCEPT !.toolCalls = Append(@, FunctionCallDescriptor(orig, item))]
    ELSE acc

RECURSIVE WalkOutput(_, _, _, _)
WalkOutput(acc, orig, output, i) ==
    IF i > Len(output) THEN acc
    ELSE WalkOutput(WalkItem(acc, orig, output[i]), orig, output, i + 1)

BuildMessage(orig, output) ==
    LET acc == WalkOutput(NewAccumulator, orig, output, 1)
        m1 == IF acc.contentText # <<>>
              THEN [NewMessage EXCEPT !.content = Some(acc.contentText)]
              ELSE NewMessage
        m2 == IF Len(acc.toolCalls) > 0
              THEN [m1 EXCEPT !.tool_calls = Some(acc.toolCalls)]
              ELSE m1
    IN applyCodexReasoningCompatToMessage(m2, acc.reasoningSummaryText,
                                          acc.reasoningFullText,
                                          resolveCodexReasoningCompat(orig))

\* finish_reason of the non-stream object: set only for status "completed".
NonStreamFinishReason(r) ==
    IF Exists(r.status) /\ Get(r.status) = "completed" THEN "stop" ELSE Null

\* The returned JSON, or None for the empty string.  now is time.Now().Unix().
ConvertCodexResponseToOpenAINonStream(orig, line, now) ==
    IF line.type # "response.completed" THEN None
    ELSE LET r == ResponseOf(line)
         IN Some([ id |-> Str(r.id),
                   object |-> "chat.completion",
                   created |-> IF Exists(r.created_at) THEN Get(r.created_at) ELSE now,
                   model |-> IF Exists(r.model) THEN Get(r.model) ELSE "model",
                   message |-> IF Exists(r.output)
                               THEN BuildMessage(orig, Get(r.output))
                               ELSE NewMessage,
                   finish_reason |-> NonStreamFinishReason(r),
                   native_finish_reason |-> NonStreamFinishReason(r) ])

----------------------------------------------------------------------------
(* SpecEquiv: one conversation, delivered as a stream of lines to the      *)
(* streaming translator and as one response object to the non-stream one.  *)

MaxItems == 2

plan == <<"p","l","a","n">>

VendorNames == {"get_weather", "calc"}

ItemAlphabet ==
    { ReasoningItem(<<>>, <<thinking>>), ReasoningItem(<<plan>>, <<>>), MessageItem(Hi) }
    \cup {FunctionCallItem("call_1", n) : n \in VendorNames}

Outputs == UNION {[1..k -> ItemAlphabet] : k \in 0..MaxItems}

Conversations ==
    {Response("r1", Some(status), Some(output)) :
        status \in {"completed", "incomplete"}, output \in Outputs}

EquivRequests ==
    {Request(settings, None, tools) :
        settings \in {None, Some(o3), Some(legacy), Some(current)},
        tools \in { <<>>, <<FunctionTool("get_weather_data")>>,
                    <<FunctionTool("calc"), OtherTool("web_search"),
                      FunctionTool("get_weather_data")>> }}

\* The lines the vendor streams for one output item.
RECURSIVE SummaryLines(_, _)
SummaryLines(parts, i) ==
    IF i > Len(parts) THEN <<>>
    ELSE <<SummaryPartAddedLine, SummaryDeltaLine(Txt(parts[i].text))>>
             \o SummaryLines(parts, i + 1)

ItemLines(item) ==
    (IF item.type = "reasoning"
     THEN SummaryLines(Get(item.summary), 1)
              \o [i \in 1..Len(Get(item.content)) |->
                     ReasoningDeltaLine(Txt(Get(item.content)[i].text))]
     ELSE IF item.type = "message"
     THEN [i \in 1..Len(Get(item.content)) |->
              OutputTextDeltaLine(Get(item.content)[i].text)]
     ELSE <<>>)
    \o <<OutputItemDoneLine(Some(item))>>

RECURSIVE OutputLines(_, _)
OutputLines(output, i) ==
    IF i > Len(output) THEN <<>>
    ELSE ItemLines(output[i]) \o OutputLines(output, i + 1)

\* The whole stream of the conversation; its last line is the response
\* object that the non-stream translator receives.
Script ==
    <<CreatedLine>> \o OutputLines(Get(conversation.output), 1)
        \o <<CompletedLine(Some(conversation))>>

Clock == {1800}

Called(line, result) == <<[input |-> line, output |-> result]>>

NonStreamCall ==
    /\ nonStream = NotCalled
    /\ \E line \in {CreatedLine, Script[Len(Script)]}, now \in Clock :
          nonStream' = Called(line, ConvertCodexResponseToOpenAINonStream(request, line, now))
    /\ UNCHANGED <<streamVars, shortOf, request, conversation>>
    /\ UNCHANGED <<normVars, annotateVars, patchVars, pairVars>>

InitEquiv ==
    /\ param = NewParams
    /\ log = <<>>
    /\ returned = <<>>
    /\ emitted = <<>>
    /\ shortOf \in Shortenings
    /\ request \in EquivRequests
    /\ conversation \in Conversations
    /\ nonStream = NotCalled
    /\ raw = <<>> /\ rawCore = <<>> /\ value = Unset /\ value2 = Unset
    /\ IdleAnnotate /\ IdlePatch /\ IdlePair

\* The next line of the stream, if the stream has not ended.
Streamed == IF Len(log) < Len(Script) THEN {Script[Len(log) + 1]} ELSE {}

NextEquiv ==
    \/ \E line \in Streamed : ResponseCreated(line)
    \/ \E line \in Streamed : SummaryPartAdded(request, line)
    \/ \E line \in Streamed : ReasoningDelta(request, line)
    \/ \E line \in Streamed : OutputTextDelta(request, line)
    \/ \E line \in Streamed : Completed(request, line)
    \/ \E line \in Streamed : OutputItemDone(request, line)
    \/ NonStreamCall

SpecEquiv == InitEquiv /\ [][NextEquiv]_vars

----------------------------------------------------------------------------
(* SpecNonStream: the non-stream translator on response objects whose      *)
(* output holds reasoning items with several summary segments, structured  *)
(* content and a flat text, messages with several parts, and more than one *)
(* message.                                                                *)

Bye == <<"B","y","e">>
more == <<" ","m","o","r","e","\n">>
flat == <<"f","l","a","t">>
blank == <<" ">>

WithText(item, text) == [item EXCEPT !.text = Some(text)]

\* A message whose parts are a refusal and then two output_text parts.
PartsMessage ==
    [Item("message") EXCEPT
        !.content = Some(<< [type |-> "refusal", text |-> Some(plan)],
                            [type |-> "output_text", text |-> Some(Bye)],
                            [type |-> "output_text", text |-> Some(Hi)] >>)]

\* A reasoning item whose second summary part is not a summary_text.
MixedSummaryItem ==
    [ReasoningItem(<<plan, thinking>>, <<>>) EXCEPT
        !.summary = Some(<< [type |-> "summary_text", text |-> Some(plan)],
                            [type |-> "other", text |-> Some(thinking)] >>)]

NonStreamItems ==
    { WithText(ReasoningItem(<<plan, more>>, <<thinking>>), flat),
      ReasoningItem(<<blank>>, <<Hi, blank, plan>>),
      WithText(ReasoningItem(<<>>, <<>>), more),
      MixedSummaryItem,
      MessageItem(Hi),
      MessageItem(Bye),
      PartsMessage,
      FunctionCallItem("call_1", "get_weather") }

NonStreamOutputs == UNION {[1..k -> NonStreamItems] : k \in 0..MaxItems}

NonStreamRequests ==
    {Request(s, None, ExampleTools) : s \in {None, Some(o3), Some(legacy), Some(current)}}

InitNonStream ==
    /\ request \in NonStreamRequests
    /\ \E status \in {"completed", "incomplete"}, output \in NonStreamOutputs :
          conversation = Response("r1", Some(status), Some(output))
    /\ nonStream = NotCalled
    /\ param = NewParams
    /\ log = <<>>
    /\ returned = <<>>
    /\ emitted = <<>>
    /\ shortOf = ExampleShortening
    /\ raw = <<>> /\ rawCore = <<>> /\ value = Unset /\ value2 = Unset
    /\ IdleAnnotate /\ IdlePatch /\ IdlePair

NextNonStream == NonStreamCall

SpecNonStream == InitNonStream /\ [][NextNonStream]_vars

----------------------------------------------------------------------------
(* Reading the history of a streaming run *)

IsType(line, type) == line.data /\ line.type = type

IsFunctionCallLine(line) ==
    /\ IsType(line, "response.output_item.done")
    /\ Exists(line.item)
    /\ Get(line.item).type = "function_call"

\* Number of function_call items among the first n lines.
FunctionCallsSeen(n) == Cardinality({i \in 1..n : IsFunctionCallLine(log[i])})

SummaryPartsSeen(n) ==
    Cardinality({i \in 1..n : IsType(log[i], "response.reasoning_summary_part.added")})

LastLine == log[Len(log)]
EndsWith(type) == log # <<>> /\ IsType(LastLine, type)

ContentPositions(text) == {i \in 1..Len(emitted) : emitted[i].content = Some(text)}

\* The texts a chunk carries in its delta.
ChunkTexts(c) ==
    (IF Exists(c.content) THEN {Get(c.content)} ELSE {})
    \cup (IF Exists(c.reasoning_summary) THEN {Get(c.reasoning_summary)} ELSE {})
    \cup (IF Exists(c.reasoning)
          THEN (IF Exists(Get(c.reasoning).string)
                THEN {Get(Get(c.reasoning).string)} ELSE {})
               \cup (IF Exists(Get(c.reasoning).content)
                     THEN {Get(Get(c.reasoning).content)[1].text} ELSE {})
          ELSE {})

IsFinishChunk(c) == c.finish_reason # Null /\ ChunkTexts(c) = {} /\ c.tool_calls = None

----------------------------------------------------------------------------
(* C1.  Think-tag balance: in think-tags mode, once a sequence of lines    *)
(* processed on a fresh state ends with response.completed, as many        *)
(* content chunks "<think>" as "</think>" have been emitted, at most one   *)
(* of each, and the opening one comes first.                               *)

C1_ThinkTagBalance ==
    (param.ReasoningCompat = think_tags /\ EndsWith("response.completed"))
    => /\ Cardinality(ContentPositions(OpenTag)) = Cardinality(ContentPositions(CloseTag))
       /\ Cardinality(ContentPositions(OpenTag)) <= 1
       /\ \A i \in ContentPositions(OpenTag), j \in ContentPositions(CloseTag) : i < j

C1_Witness ==
    /\ param.ReasoningCompat = think_tags
    /\ EndsWith("response.completed")
    /\ Cardinality(ContentPositions(OpenTag)) = 1
    /\ Cardinality(ContentPositions(CloseTag)) = 1
    /\ \E i \in 1..Len(log) : IsType(log[i], "response.reasoning_text.delta")

(* C2.  Pending-summary separator: in o3 and think-tags modes, when a      *)
(* second or later reasoning_summary_part.added is followed by a           *)
(* reasoning_summary_text.delta (no other summary delta in between), that  *)
(* delta's call returns a newline chunk immediately before the chunk with  *)
(* the delta text; in legacy and current modes no chunk is a newline.      *)

\* The last line is a summary delta and it is the first one after a
\* summary_part.added that was not the first of the run.
SeparatorDue ==
    /\ EndsWith("response.reasoning_summary_text.delta")
    /\ \E k \in 1..(Len(log) - 1) :
          /\ IsType(log[k], "response.reasoning_summary_part.added")
          /\ SummaryPartsSeen(k) >= 2
          /\ \A j \in (k + 1)..(Len(log) - 1) :
                ~IsType(log[j], "response.reasoning_summary_text.delta")

C2_PendingSummarySeparator ==
    /\ (SeparatorDue /\ param.ReasoningCompat \in {o3, think_tags})
         => LET n == Len(returned)
            IN /\ n >= 2
               /\ ChunkTexts(returned[n - 1]) = {Newline}
               /\ ChunkTexts(returned[n]) = {Get(LastLine.delta)}
    /\ param.ReasoningCompat \in {legacy, current}
         => \A i \in 1..Len(emitted) : Newline \notin ChunkTexts(emitted[i])

C2_Witness ==
    /\ SeparatorDue
    /\ param.ReasoningCompat = o3
    /\ Len(returned) = 2
    /\ ChunkTexts(returned[1]) = {Newline}

(* C3.  Function-call indexing: the Nth output_item.done line carrying a   *)
(* function_call item returns exactly one chunk, whose only tool call has  *)
(* index N-1, and FunctionCallIndex is always the number of function_call  *)
(* items seen minus one, whatever else was processed in between.           *)

C3_FunctionCallIndexing ==
    /\ param.FunctionCallIndex = FunctionCallsSeen(Len(log)) - 1
    /\ (log # <<>> /\ IsFunctionCallLine(LastLine))
         => /\ Len(returned) = 1
            /\ Exists(returned[1].tool_calls)
            /\ Len(Get(returned[1].tool_calls)) = 1
            /\ Get(returned[1].tool_calls)[1].index = FunctionCallsSeen(Len(log)) - 1

C3_Witness ==
    /\ Len(log) = 4
    /\ IsFunctionCallLine(log[1])
    /\ ~IsFunctionCallLine(log[2])
    /\ ~IsFunctionCallLine(log[3])
    /\ IsFunctionCallLine(log[4])
    /\ Get(returned[1].tool_calls)[1].index = 1

(* C4.  Streaming finish reason: the finish chunk returned for             *)
(* response.completed has finish_reason and native_finish_reason           *)
(* "tool_calls" if a function_call item was processed before on this       *)
(* state, and "stop" otherwise.                                            *)

C4_StreamingFinishReason ==
    EndsWith("response.completed")
    => LET finish == returned[Len(returned)]
           expected == IF FunctionCallsSeen(Len(log)) >= 1 THEN "tool_calls" ELSE "stop"
       IN /\ IsFinishChunk(finish)
          /\ finish.finish_reason = expected
          /\ finish.native_finish_reason = expected

C4_Witness ==
    /\ EndsWith("response.completed")
    /\ FunctionCallsSeen(Len(log)) = 1
    /\ returned[Len(returned)].finish_reason = "tool_calls"

(* C5.  Chunk identity: every chunk returned after a response.created line *)
(* was processed carries the id, created and model captured from it.       *)

CreatedSeen == \E i \in 1..Len(log) : IsType(log[i], "response.created")

C5_ChunkIdentity ==
    CreatedSeen
    => \A i \in 1..Len(returned) :
          /\ returned[i].id = param.ResponseID
          /\ returned[i].created = param.CreatedAt
          /\ returned[i].model = param.Model

(* C6.  End-to-end think-tags ordering: in think-tags mode the lines       *)
(* created, reasoning_text.delta("thinking"), output_text.delta("Hi"),     *)
(* completed on a fresh state emit exactly five chunks: content "<think>", *)
(* "thinking", "Hi", "</think>", then the finish chunk.                    *)

ThinkTagsScenario ==
    << CreatedLine, ReasoningDeltaLine(thinking), OutputTextDeltaLine(Some(Hi)),
       CompletedLine(None) >>

C6_ThinkTagsScenario ==
    (log = ThinkTagsScenario /\ param.ReasoningCompat = think_tags)
    => /\ Len(emitted) = 5
       /\ ChunkTexts(emitted[1]) = {OpenTag} /\ emitted[1].content = Some(OpenTag)
       /\ ChunkTexts(emitted[2]) = {thinking} /\ emitted[2].content = Some(thinking)
       /\ ChunkTexts(emitted[3]) = {Hi} /\ emitted[3].content = Some(Hi)
       /\ ChunkTexts(emitted[4]) = {CloseTag} /\ emitted[4].content = Some(CloseTag)
       /\ IsFinishChunk(emitted[5])

C6_Witness ==
    /\ log = ThinkTagsScenario
    /\ param.ReasoningCompat = think_tags
    /\ Len(emitted) = 5

----------------------------------------------------------------------------
(* Reading the two translations of one conversation *)

StreamEnded == log = Script

\* The non-stream translator was called on the conversation's response object.
NonStreamDone ==
    /\ nonStream # NotCalled
    /\ nonStream[1].input = Script[Len(Script)]

NonStreamObject == Get(nonStream[1].output)

\* Concatenation of the content fields of the chunks from the ith on.
RECURSIVE ContentFrom(_)
ContentFrom(i) ==
    IF i > Len(emitted) THEN <<>>
    ELSE Txt(emitted[i].content) \o ContentFrom(i + 1)

HasToolCalls(c) == Exists(c.tool_calls)
ToolCallChunks == SelectSeq(emitted, HasToolCalls)
IsFunctionCallItem(item) == item.type = "function_call"
FunctionCallItems == SelectSeq(Get(conversation.output), IsFunctionCallItem)

(* C7.  Stream/non-stream finish-reason equivalence: for one conversation  *)
(* with status completed, the finish_reason of the non-stream object       *)
(* equals that of the stream's finish chunk, function calls or not.        *)

C7_FinishReasonEquivalence ==
    (StreamEnded /\ NonStreamDone /\ conversation.status = Some("completed"))
    => NonStreamObject.finish_reason = emitted[Len(emitted)].finish_reason

(* C8.  Stream/non-stream content equivalence under think-tags: for one    *)
(* reasoning text followed by one answer text, the concatenated content of *)
(* the stream's chunks equals the non-stream message content.              *)

C8_ContentEquivalence ==
    ( /\ StreamEnded
      /\ NonStreamDone
      /\ param.ReasoningCompat = think_tags
      /\ conversation.output = Some(<<ReasoningItem(<<>>, <<thinking>>), MessageItem(Hi)>>) )
    => ContentFrom(1) = Txt(NonStreamObject.message.content)

(* C9.  Name restoration: under an injective shortening of the declared    *)
(* function-tool names, a function_call item named by the short form of a  *)
(* declared tool is emitted with that tool's original name, in the         *)
(* stream's tool-call delta and in the non-stream tool_calls list, and any *)
(* other name is emitted unchanged.                                        *)

DeclaredTools == {n \in ToolNames : \E i \in 1..Len(request.tools) : request.tools[i] = FunctionTool(n)}

ExpectedName(name) ==
    IF \E n \in DeclaredTools : shortOf[n] = name
    THEN CHOOSE n \in DeclaredTools : shortOf[n] = name
    ELSE name

C9_NameRestoration ==
    /\ StreamEnded
         => /\ Len(ToolCallChunks) = Len(FunctionCallItems)
            /\ \A k \in 1..Len(FunctionCallItems) :
                  Get(ToolCallChunks[k].tool_calls)[1].function.name
                      = ExpectedName(Get(FunctionCallItems[k].name))
    /\ NonStreamDone
         => LET calls == Txt(NonStreamObject.message.tool_calls)
            IN /\ Len(calls) = Len(FunctionCallItems)
               /\ \A k \in 1..Len(FunctionCallItems) :
                     calls[k].function.name = ExpectedName(Get(FunctionCallItems[k].name))

C9_Witness ==
    /\ StreamEnded
    /\ NonStreamDone
    /\ Len(FunctionCallItems) = 2
    /\ Get(FunctionCallItems[1].name) = "get_weather"
    /\ Get(ToolCallChunks[1].tool_calls)[1].function.name = "get_weather_data"
    /\ NonStreamObject.message.tool_calls[1][1].function.name = "get_weather_data"
    /\ Get(FunctionCallItems[2].name) = "calc"
    /\ Get(ToolCallChunks[2].tool_calls)[1].function.name = "calc"
    /\ "calc" \notin DeclaredTools

(* C10.  normalizeCodexReasoningCompat is total and idempotent: the result *)
(* is always one of the four modes; a valid mode in any casing and with    *)
(* any surrounding whitespace yields that mode; every other string, the    *)
(* empty one included, yields think-tags; normalizing the result again     *)
(* changes nothing.                                                        *)

C10_NormalizeTotalIdempotent ==
    /\ value # Unset
         => /\ value \in CompatModes
            /\ rawCore \in CompatModes => value = rawCore
            /\ rawCore \notin CompatModes => value = think_tags
    /\ value2 # Unset => value2 = value

C10_Witness ==
    /\ value2 = legacy
    /\ rawCore = legacy
    /\ Len(raw) = Len(legacy) + 2
    /\ raw[2] = "L"

(* C11.  Annotation round trip: for every stored request that is non-empty *)
(* valid JSON and every settings value, annotateCodexOriginalRequest       *)
(* followed by resolveCodexReasoningCompat returns the mode that was       *)
(* annotated (the mode the settings' reasoning-compat value stands for),   *)
(* also when the request already carried the legacy-spelled key with       *)
(* another mode.                                                           *)

ValidNonEmpty(doc) == doc.kind = JSONObject \/ doc.kind = JSONArray

C11_AnnotationRoundTrip ==
    (resolved # NotCalled /\ ValidNonEmpty(original))
        => Get(resolved) = normalizeCodexReasoningCompat(codexSettings.ReasoningCompat)

\* The same round trip, on the requests that are JSON objects.
C11_ObjectRoundTrip ==
    (resolved # NotCalled /\ original.kind = JSONObject)
        => Get(resolved) = normalizeCodexReasoningCompat(codexSettings.ReasoningCompat)

(* C12.  No-op inputs: a line without the data prefix, and a data line     *)
(* whose type is none of the event types acted upon (the type              *)
(* response.reasoning_summary_text.done included), return no chunk and      *)
(* leave ResponseID, CreatedAt, Model, FunctionCallIndex, ThinkOpen,        *)
(* ThinkClosed, SawAnySummary and PendingSummary as they were.              *)

ActedUponTypes == KnownTypes \ {"response.reasoning_summary_text.done"}

IsNoOpLine(line) == ~line.data \/ line.type \notin ActedUponTypes

TrackedFields(p) ==
    <<p.ResponseID, p.CreatedAt, p.Model, p.FunctionCallIndex, p.ThinkOpen,
      p.ThinkClosed, p.SawAnySummary, p.PendingSummary>>

NoOpCall ==
    (log' # log /\ IsNoOpLine(log'[Len(log')]))
        => /\ returned' = <<>>
           /\ emitted' = emitted
           /\ TrackedFields(param') = TrackedFields(param)

C12_NoOpInputs == [][NoOpCall]_vars

C12_Witness ==
    /\ log = <<CreatedLine, SummaryDeltaLine(thinking), NotDataLine, OtherLine>>
    /\ returned = <<>>
    /\ Len(emitted) = 2
    /\ param.ResponseID = "r1"
    /\ param.ThinkOpen

(* C13.  Per-request isolation: when the calls of two requests, each with  *)
(* its own state, interleave in any order, the chunks returned for each     *)
(* request and its state are those obtained by making that request's calls  *)
(* alone.                                                                   *)

RECURSIVE RunAlone(_, _)
RunAlone(orig, lines) ==
    IF lines = <<>>
    THEN Result(NewParams, <<>>)
    ELSE LET before == RunAlone(orig, SubSeq(lines, 1, Len(lines) - 1))
             res == ConvertCodexResponseToOpenAI(before.param, orig, lines[Len(lines)])
         IN Result(res.param, before.chunks \o res.chunks)

C13_PerRequestIsolation ==
    \A r \in RequestIds :
        LET alone == RunAlone(pair[r].request, pair[r].log)
        IN /\ pair[r].param = alone.param
           /\ pair[r].emitted = alone.chunks

C13_Witness ==
    /\ order = <<1, 2, 1, 2>>
    /\ pair[1].log = <<CreatedLine, SummaryDeltaLine(thinking)>>
    /\ pair[2].log = <<SummaryPartAddedLine,
                       OutputItemDoneLine(Some(FunctionCallItem("call_1", "get_weather")))>>
    /\ pair[1].param.ThinkOpen /\ pair[1].param.FunctionCallIndex = -1
    /\ pair[1].param.ResponseID = "r1"
    /\ ~pair[2].param.ThinkOpen /\ pair[2].param.FunctionCallIndex = 0
    /\ pair[2].param.ResponseID = ""
    /\ pair[2].param.ReasoningCompat = o3
    /\ Len(pair[1].emitted) = 2 /\ Len(pair[2].emitted) = 1

(* C14.  A response.output_item.done line that carries no function_call    *)
(* item (an item of another type, or no item at all) returns no chunk and   *)
(* leaves FunctionCallIndex and the other state fields as they were.        *)

IsOtherItemDone(line) ==
    IsType(line, "response.output_item.done") /\ ~IsFunctionCallLine(line)

OtherItemDoneCall ==
    (log' # log /\ IsOtherItemDone(log'[Len(log')]))
        => /\ returned' = <<>>
           /\ emitted' = emitted
           /\ TrackedFields(param') = TrackedFields(param)

C14_OtherItemDoneNoEffect == [][OtherItemDoneCall]_vars

\* The same, for the lines that carry an item of another type.
TypedOtherItemDoneCall ==
    (log' # log /\ IsOtherItemDone(log'[Len(log')]) /\ Exists(log'[Len(log')].item))
        => /\ returned' = <<>>
           /\ emitted' = emitted
           /\ TrackedFields(param') = TrackedFields(param)

C14_TypedItemDoneNoEffect == [][TypedOtherItemDoneCall]_vars

(* C15.  On response.completed: in think-tags mode with a think block open  *)
(* and not yet closed, exactly two chunks are returned, first a content     *)
(* delta closing the tag, then the finish chunk, and the state becomes      *)
(* ThinkOpen = FALSE, ThinkClosed = TRUE; in every other case exactly one    *)
(* finish chunk is returned and the two flags are unchanged.                *)

IsContentDelta(c, text) ==
    /\ c.content = Some(text)
    /\ ChunkTexts(c) = {text}
    /\ c.tool_calls = None

CompletedCall ==
    (log' # log /\ IsType(log'[Len(log')], "response.completed"))
        => IF param'.ReasoningCompat = think_tags /\ param.ThinkOpen /\ ~param.ThinkClosed
           THEN /\ Len(returned') = 2
                /\ IsContentDelta(returned'[1], CloseTag)
                /\ IsFinishChunk(returned'[2])
                /\ ~param'.ThinkOpen
                /\ param'.ThinkClosed
           ELSE /\ Len(returned') = 1
                /\ IsFinishChunk(returned'[1])
                /\ param'.ThinkOpen = param.ThinkOpen
                /\ param'.ThinkClosed = param.ThinkClosed

C15_CompletedChunks == [][CompletedCall]_vars

C15_Witness ==
    /\ log = <<CreatedLine, ReasoningDeltaLine(thinking), CompletedLine(None), CompletedLine(None)>>
    /\ Len(emitted) = 5
    /\ emitted[3].content = Some(CloseTag)
    /\ IsFinishChunk(emitted[4])
    /\ returned = <<emitted[5]>>
    /\ IsFinishChunk(emitted[5])
    /\ param.ThinkClosed /\ ~param.ThinkOpen

(* C16.  In legacy and current mode every reasoning delta returns exactly   *)
(* one chunk: a response.reasoning_summary_text.delta a chunk tagged         *)
(* reasoning_summary, a response.reasoning_text.delta a chunk tagged         *)
(* reasoning; and a response.reasoning_summary_part.added never changes      *)
(* SawAnySummary or PendingSummary.                                          *)

IsLegacyOrCurrent(p) == p.ReasoningCompat = legacy \/ p.ReasoningCompat = current

LegacyCall ==
    (log' # log /\ IsLegacyOrCurrent(param'))
        => LET line == log'[Len(log')]
           IN /\ IsType(line, "response.reasoning_summary_text.delta")
                    => /\ Len(returned') = 1
                       /\ returned'[1].reasoning_summary = line.delta
                       /\ returned'[1].content = None
              /\ IsType(line, "response.reasoning_text.delta")
                    => /\ Len(returned') = 1
                       /\ returned'[1].reasoning = Some(JString(Get(line.delta)))
                       /\ returned'[1].reasoning_summary = None
                       /\ returned'[1].content = None
              /\ IsType(line, "response.reasoning_summary_part.added")
                    => /\ param'.SawAnySummary = param.SawAnySummary
                       /\ param'.PendingSummary = param.PendingSummary

C16_LegacyCurrentDeltas == [][LegacyCall]_vars

C16_Witness ==
    /\ log = <<SummaryPartAddedLine, SummaryPartAddedLine,
               SummaryDeltaLine(thinking), ReasoningDeltaLine(thinking)>>
    /\ param.ReasoningCompat = current
    /\ ~param.SawAnySummary /\ ~param.PendingSummary
    /\ Len(emitted) = 2
    /\ emitted[1].reasoning_summary = Some(thinking)
    /\ emitted[2].reasoning_summary = None
    /\ emitted[2].reasoning = Some(JString(thinking))

(* C17.  Stream/non-stream tool-call equivalence: for one conversation, the *)
(* ordered list of tool calls (id, restored name, arguments) of the          *)
(* non-stream message equals the stream's tool-call deltas ordered by their  *)
(* index, and both follow the order of the function_call items.              *)

StreamToolCalls == [k \in 1..Len(ToolCallChunks) |-> Get(ToolCallChunks[k].tool_calls)[1]]

NonStreamToolCalls == Txt(NonStreamObject.message.tool_calls)

SameCall(a, b) ==
    /\ a.id = b.id
    /\ a.function.name = b.function.name
    /\ a.function.arguments = b.function.arguments

C17_ToolCallEquivalence ==
    (StreamEnded /\ NonStreamDone)
    => /\ Len(StreamToolCalls) = Len(FunctionCallItems)
       /\ Len(NonStreamToolCalls) = Len(FunctionCallItems)
       /\ \A k \in 1..Len(FunctionCallItems) :
             /\ StreamToolCalls[k].index = k - 1
             /\ SameCall(StreamToolCalls[k], NonStreamToolCalls[k])
             /\ StreamToolCalls[k].id = Str(FunctionCallItems[k].call_id)
             /\ StreamToolCalls[k].function.arguments = Str(FunctionCallItems[k].arguments)
             /\ StreamToolCalls[k].function.name
                   = RestoreName(request, Str(FunctionCallItems[k].name))

C17_Witness ==
    /\ StreamEnded
    /\ NonStreamDone
    /\ conversation.output = Some(<<FunctionCallItem("call_1", "calc"),
                                    FunctionCallItem("call_1", "get_weather")>>)
    /\ shortOf["get_weather_data"] = "get_weather"
    /\ Len(NonStreamToolCalls) = 2
    /\ NonStreamToolCalls[1].function.name = "calc"
    /\ NonStreamToolCalls[2].function.name = "get_weather_data"
    /\ StreamToolCalls[1].index = 0 /\ StreamToolCalls[1].function.name = "calc"
    /\ StreamToolCalls[2].index = 1 /\ StreamToolCalls[2].function.name = "get_weather_data"

----------------------------------------------------------------------------
(* Reading the output list of the conversation: the texts in the order in  *)
(* which a single walk over the list meets them.                           *)

OutputItems == Get(conversation.output)

NonEmpty(t) == t # <<>>

RECURSIVE JoinSegments(_)
JoinSegments(segs) ==
    IF segs = <<>> THEN <<>>
    ELSE IF Len(segs) = 1 THEN segs[1]
    ELSE segs[1] \o DoubleNewline \o JoinSegments(Tail(segs))

IsSummaryText(part) == part.type = "summary_text"

PartTexts(parts) == [k \in 1..Len(parts) |-> TrimSpace(Txt(parts[k].text))]

SummaryTextsOf(item) ==
    IF item.type = "reasoning"
    THEN PartTexts(SelectSeq(Txt(item.summary), IsSummaryText))
    ELSE <<>>

FullTextsOf(item) ==
    IF item.type = "reasoning"
    THEN PartTexts(Txt(item.content)) \o <<TrimSpace(Txt(item.text))>>
    ELSE <<>>

RECURSIVE SummaryTextsFrom(_)
SummaryTextsFrom(i) ==
    IF i > Len(OutputItems) THEN <<>>
    ELSE SummaryTextsOf(OutputItems[i]) \o SummaryTextsFrom(i + 1)

RECURSIVE FullTextsFrom(_)
FullTextsFrom(i) ==
    IF i > Len(OutputItems) THEN <<>>
    ELSE FullTextsOf(OutputItems[i]) \o FullTextsFrom(i + 1)

SummarySegments == SelectSeq(SummaryTextsFrom(1), NonEmpty)
FullSegments == SelectSeq(FullTextsFrom(1), NonEmpty)

ExpectedSummary == JoinSegments(SummarySegments)
ExpectedFull == JoinSegments(FullSegments)
ExpectedCombined == JoinSegments(SelectSeq(<<ExpectedSummary, ExpectedFull>>, NonEmpty))

\* What think-tags mode puts in front of the message content.
ThinkPrefix ==
    IF resolveCodexReasoningCompat(request) = think_tags /\ ExpectedCombined # <<>>
    THEN OpenTag \o ExpectedCombined \o CloseTag
    ELSE <<>>

IsOutputText(part) == part.type = "output_text"

HasOutputText(item) ==
    item.type = "message" /\ SelectSeq(Txt(item.content), IsOutputText) # <<>>

\* The message items that have an output_text part, in output order, and
\* the text of the first such part of the kth of them.
TextMessages == SelectSeq(OutputItems, HasOutputText)
MessageText(k) == Txt(SelectSeq(Txt(TextMessages[k].content), IsOutputText)[1].text)

(* C18.  The content of the non-stream message is the first output_text     *)
(* found in one walk over the output list: when several message items have  *)
(* an output_text part, the text of the earliest one is used.               *)

C18_FirstOutputText ==
    NonStreamDone
    => Txt(NonStreamObject.message.content)
          = ThinkPrefix \o (IF TextMessages = <<>> THEN <<>> ELSE MessageText(1))

\* What the walk does: each message item with an output_text part replaces
\* the text taken before, so the latest one is used.
C18_LastOutputText ==
    NonStreamDone
    => Txt(NonStreamObject.message.content)
          = ThinkPrefix \o (IF TextMessages = <<>> THEN <<>>
                            ELSE MessageText(Len(TextMessages)))

(* C19.  Non-stream reasoning accumulation: over the ordered output list    *)
(* the summary_text segments make the summary text and, per reasoning item, *)
(* the structured content texts and then the flat text make the full text,  *)
(* the non-empty segments joined by a double newline in encounter order;    *)
(* the combined reasoning places the summary text before the full text.     *)

OptionalText(t) == IF t = <<>> THEN None ELSE Some(t)

C19_ReasoningAccumulation ==
    NonStreamDone
    => LET m == NonStreamObject.message
           mode == resolveCodexReasoningCompat(request)
           block == OpenTag \o ExpectedCombined \o CloseTag
       IN /\ mode \in {legacy, current}
               => /\ m.reasoning_summary = OptionalText(ExpectedSummary)
                  /\ m.reasoning = IF ExpectedFull = <<>> THEN None
                                   ELSE Some(JString(ExpectedFull))
          /\ mode = o3
               => m.reasoning = IF ExpectedCombined = <<>> THEN None
                                ELSE Some(JReasoningContent(ExpectedCombined))
          /\ (mode = think_tags /\ ExpectedCombined # <<>>)
               => /\ Len(Txt(m.content)) >= Len(block)
                  /\ SubSeq(Txt(m.content), 1, Len(block)) = block

C19_Witness ==
    /\ NonStreamDone
    /\ resolveCodexReasoningCompat(request) = o3
    /\ OutputItems = << WithText(ReasoningItem(<<plan, more>>, <<thinking>>), flat),
                        ReasoningItem(<<blank>>, <<Hi, blank, plan>>) >>
    /\ SummarySegments = <<plan, <<"m","o","r","e">> >>
    /\ FullSegments = <<thinking, flat, Hi, plan>>
    /\ NonStreamObject.message.reasoning
          = Some(JReasoningContent(
                plan \o DoubleNewline \o <<"m","o","r","e">> \o DoubleNewline
                  \o thinking \o DoubleNewline \o flat \o DoubleNewline
                  \o Hi \o DoubleNewline \o plan))

(* C20.  Compatibility patch: applyCodexCompatibilityMode removes the       *)
(* instructions member and sets role to "user" on exactly the input         *)
(* elements whose role is "system" in any casing; the input array keeps its *)
(* length and order, every other element is unchanged, and applying the     *)
(* patch a second time changes nothing.                                     *)

\* "system" in any casing, letter by letter.
IsSystemRole(role) ==
    /\ Exists(role)
    /\ Len(Get(role)) = Len(system)
    /\ \A k \in 1..Len(system) : Get(role)[k] \in {system[k], ToUpperChar(system[k])}

C20_CompatibilityPatch ==
    /\ patched # NotCalled
         => LET out == Get(patched)
            IN /\ out.instructions = None
               /\ Exists(out.input) = Exists(payload.input)
               /\ Exists(payload.input)
                    => LET before == Get(payload.input)
                           after == Get(out.input)
                       IN /\ after.isArray = before.isArray
                          /\ Len(after.items) = Len(before.items)
                          /\ \A k \in 1..Len(before.items) :
                                /\ after.items[k].rest = before.items[k].rest
                                /\ after.items[k].role =
                                      IF IsSystemRole(before.items[k].role)
                                      THEN Some(user)
                                      ELSE before.items[k].role
    /\ patchedAgain # NotCalled => patchedAgain = patched

C20_Witness ==
    /\ payload = Payload(Some("Be brief."),
                         Some(ArrayInput(<< Element(Some(<<"S","y","s","t","e","m">>), "a"),
                                            Element(Some(assistant), "b") >>)))
    /\ patched = Some(Payload(None,
                         Some(ArrayInput(<< Element(Some(user), "a"),
                                            Element(Some(assistant), "b") >>))))
    /\ patchedAgain = patched

(* C21.  The think flags are monotone over any sequence of lines, lines     *)
(* after response.completed included: ThinkOpen and ThinkClosed are never   *)
(* both true, ThinkClosed never returns to false once set, at most one      *)
(* "<think>" chunk and at most one "</think>" chunk are ever emitted on one *)
(* state, and in the modes other than think-tags both flags stay false.     *)

ThinkFlagsInv ==
    /\ ~(param.ThinkOpen /\ param.ThinkClosed)
    /\ Cardinality(ContentPositions(OpenTag)) <= 1
    /\ Cardinality(ContentPositions(CloseTag)) <= 1
    /\ param.ReasoningCompat # think_tags => (~param.ThinkOpen /\ ~param.ThinkClosed)

ClosedStaysClosed == param.ThinkClosed => param'.ThinkClosed

C21_ThinkFlagsMonotone == []ThinkFlagsInv /\ [][ClosedStaysClosed]_vars

C21_Witness ==
    /\ log = <<ReasoningDeltaLine(thinking), CompletedLine(None),
               SummaryDeltaLine(thinking), CompletedLine(None)>>
    /\ param.ReasoningCompat = think_tags
    /\ param.ThinkClosed /\ ~param.ThinkOpen
    /\ ContentPositions(OpenTag) = {1}
    /\ ContentPositions(CloseTag) = {3}
    /\ Len(emitted) = 6

(* C22.  For each response.completed line exactly one returned chunk        *)
(* carries a non-null finish_reason, and it is the last chunk returned for  *)
(* that line; every chunk returned for any other line, and the content      *)
(* chunk that closes the think block, carries a null finish_reason.         *)

HasFinishReason(c) == c.finish_reason # Null

C22_SingleFinishReason ==
    log # <<>>
    => IF IsType(LastLine, "response.completed")
       THEN /\ returned # <<>>
            /\ HasFinishReason(returned[Len(returned)])
            /\ \A k \in 1..(Len(returned) - 1) : ~HasFinishReason(returned[k])
       ELSE \A k \in 1..Len(returned) : ~HasFinishReason(returned[k])

\* The same, leaving out what is said of the chunk that closes the block.
C22_FinishReasonOnCompletedOnly ==
    log # <<>>
    => IF IsType(LastLine, "response.completed")
       THEN /\ returned # <<>>
            /\ HasFinishReason(returned[Len(returned)])
            /\ IsFinishChunk(returned[Len(returned)])
       ELSE \A k \in 1..Len(returned) : ~HasFinishReason(returned[k])

(* C23.  The reasoning-compat mode of a state is resolved once, at the      *)
(* first data line other than response.created, to one of legacy, o3,       *)
(* think-tags, current, and never changes afterwards on that state, also    *)
(* when later calls pass an original request carrying another mode.         *)

IsResolvingLine(line) == line.data /\ line.type # "response.created"

CompatResolvedInv ==
    IF \E k \in 1..Len(log) : IsResolvingLine(log[k])
    THEN param.ReasoningCompat \in CompatModes
    ELSE param.ReasoningCompat = <<>>

CompatResolvedOnce ==
    log' # log
    => IF param.ReasoningCompat # <<>>
       THEN param'.ReasoningCompat = param.ReasoningCompat
       ELSE IF IsResolvingLine(log'[Len(log')])
            THEN param'.ReasoningCompat = resolveCodexReasoningCompat(request')
            ELSE param'.ReasoningCompat = <<>>

C23_CompatResolvedOnce == []CompatResolvedInv /\ [][CompatResolvedOnce]_vars

C23_Witness ==
    /\ log = <<CreatedLine, SummaryDeltaLine(thinking), CompletedLine(None)>>
    /\ param.ReasoningCompat = o3
    /\ resolveCodexReasoningCompat(request) = legacy
    /\ Len(emitted) = 2
    /\ emitted[1].reasoning = Some(JReasoningContent(thinking))

====
